---- MODULE Spec2Model ----
(***************************************************************************)
(* Unity-check evaluation of the showcase app (src/app.py):                *)
(* MyEntityType.create_plotly_and_data_result and its two views,           *)
(* calculate_python and calculate_spreadsheet.                             *)
(*                                                                         *)
(* Numbers.  The code computes in Python floats.  The model computes the   *)
(* same expressions exactly, in fixed point:                               *)
(*   volume       in units of 1/VolScale m3  (the field's step is 0.1),    *)
(*   density      in kg/m3 (IntegerField),                                 *)
(*   mass         in units of 1/VolScale kg,                               *)
(*   max_mass     in kg,                                                   *)
(*   unity_check  in units of 1/PctScale percent.                          *)
(* PctScale is a multiple of 3 so that a division by 500, 750 or 1000 of a *)
(* mass on the 0.1 kg grid is exact in these units.                        *)
(***************************************************************************)
EXTENDS Integers, Sequences, FiniteSets, TLC

VARIABLES
    cases,               \* params.calculate.cases, the DynamicArray rows
    view,                \* what each of the two views last produced for `cases`
    pc,                  \* position inside create_plotly_and_data_result
    calculation_method,  \* argument of create_plotly_and_data_result
    i,                   \* enumerate(..., 1) index of the current case
    max_mass,            \* local
    mass,                \* local
    unity_check,         \* local
    status,              \* local
    color,               \* local
    graph_data,          \* local list of (unity_check, color)
    data_items,          \* local list of DataItem
    outcome,             \* how the current call ended (return value or exception)
    calls,               \* collaborator calls made by the current call, in order, each
                         \* with the collaborator's behaviour on it
    norm_max,            \* the module globals NORM_A_MAX, NORM_B_MAX, NORM_C_MAX
    memo,                \* a result a caller kept from an earlier Python evaluation
    measurement,         \* params.research.measurement, the argument of get_color
    got_color,           \* how the last call get_color(measurement) ended
    legend_entries       \* the colors of the map legend built by map_view

vars == <<cases, view, pc, calculation_method, i, max_mass, mass, unity_check,
          status, color, graph_data, data_items, outcome, calls,
          norm_max, memo, measurement, got_color, legend_entries>>

locals == <<max_mass, mass, unity_check, status, color>>

\* the state of the map view
colorvars == <<measurement, got_color, legend_entries>>

\* what create_plotly_and_data_result and the edits of the Cases array never write
outside == <<norm_max, memo, colorvars>>

\* the state of the two calculation views and of their params
evalvars == <<cases, view, pc, calculation_method, i, locals, graph_data, data_items,
              outcome, calls>>

(***************************************************************************)
(* Bounds and input universe                                               *)
(***************************************************************************)
MaxCases == 2

VolScale == 10

PctScale == 300

\* (volume, density) pairs within the field ranges 0.1..1 m3 and 0..3000 kg/m3
Loads == { <<3, 1000>>, <<8, 1000>>, <<5, 1500>>, <<10, 401>>, <<10, 0>> }

\* app.py 155-158: the three options of the Norm field
Norms == {"A", "B", "C"}

\* a row whose norm is none of the options (the branch "should not occur")
UnknownNormCase == [volume |-> 10, density |-> 100, norm |-> "D"]

Cases ==
    { [volume |-> l[1], density |-> l[2], norm |-> n] : l \in Loads, n \in Norms }
        \cup { UnknownNormCase }

RECURSIVE SeqsUpTo(_, _)
SeqsUpTo(S, n) ==
    IF n = 0 THEN { <<>> }
    ELSE LET shorter == SeqsUpTo(S, n - 1)
         IN  shorter \cup { Append(s, e) : s \in { t \in shorter : Len(t) = n - 1 }, e \in S }

Batches == SeqsUpTo(Cases, MaxCases)

Methods == {"python_function", "spreadsheet"}

\* behaviours of the spreadsheet collaborator on one call
SheetOutcomes == {"ok", "error"}

Unset == -1

(***************************************************************************)
(* Constants of the program                                                *)
(***************************************************************************)
NORM_A_MAX == 500
NORM_B_MAX == 750
NORM_C_MAX == 1000

(***************************************************************************)
(* Outcomes of a call                                                      *)
(***************************************************************************)
NoOutcome == [kind |-> "none"]
NoMemo == [kind |-> "none"]
Returned(value) == [kind |-> "returned", value |-> value]
Raised(exc) == [kind |-> "raised", exc |-> exc]

NotImplementedError == [type |-> "NotImplementedError"]
UserException == [type |-> "UserException", message |-> "Add at least 1 case."]
SpreadsheetError == [type |-> "SpreadsheetError"]

(***************************************************************************)
(* Pure parts of the loop body                                             *)
(***************************************************************************)
\* app.py 309-316: the if/elif chain on case.norm
Ok(value) == [ok |-> TRUE, value |-> value]
Fail(exc) == [ok |-> FALSE, exc |-> exc]

\* the limits of B and C exchanged
LookupMaxMassSwapped(norm) ==
    IF norm = "A" THEN Ok(NORM_A_MAX)
    ELSE IF norm = "B" THEN Ok(NORM_C_MAX)
    ELSE IF norm = "C" THEN Ok(NORM_B_MAX)
    ELSE Fail(NotImplementedError)

\* the last elif written as else
LookupMaxMassLenient(norm) ==
    IF norm = "A" THEN Ok(NORM_A_MAX)
    ELSE IF norm = "B" THEN Ok(NORM_B_MAX)
    ELSE Ok(NORM_C_MAX)

\* the chain falls through to a default limit instead of raising
LookupMaxMassDefault(norm) ==
    IF norm = "A" THEN Ok(NORM_A_MAX)
    ELSE IF norm = "B" THEN Ok(NORM_B_MAX)
    ELSE IF norm = "C" THEN Ok(NORM_C_MAX)
    ELSE Ok(NORM_A_MAX)

\* the globals are read when the branch runs
LookupMaxMass(norm) ==
    IF norm = "A" THEN Ok(norm_max.NORM_A_MAX)
    ELSE IF norm = "B" THEN Ok(norm_max.NORM_B_MAX)
    ELSE IF norm = "C" THEN Ok(norm_max.NORM_C_MAX)
    ELSE Fail(NotImplementedError)

\* the sum instead of the product
PythonMassSum(volume, density) == volume + density

\* app.py 323: mass = case.volume * case.density   (result in 1/VolScale kg)
PythonMass(volume, density) == volume * density

\* calculate_mass.xlsx: the sheet's output cell 'mass' for the given inputs
SheetMass(volume, density) == volume * density

\* the error of the sheet evaluation swallowed, a zero mass returned
calculate_mass_from_spreadsheet_swallowed(volume, density, sheet) ==
    IF sheet = "error" THEN Ok(0)
    ELSE Ok(SheetMass(volume, density))

\* the value of the input cell 'volume' returned instead of the output cell
calculate_mass_from_spreadsheet_wrong_cell(volume, density, sheet) ==
    IF sheet = "error" THEN Fail(SpreadsheetError)
    ELSE Ok(volume)

\* app.py 45-58: an error of the sheet evaluation is not caught, the value of
\* the output cell is returned unchanged
calculate_mass_from_spreadsheet(volume, density, sheet) ==
    IF sheet = "error" THEN Fail(SpreadsheetError)
    ELSE Ok(SheetMass(volume, density))

\* the ratio without the factor 100
UnityCheckRatio(m, mx) == (m * PctScale) \div (mx * VolScale)

\* app.py 327: unity_check = mass / max_mass * 100   (result in 1/PctScale %)
UnityCheck(m, mx) == (m * 100 * PctScale) \div (mx * VolScale)

Percent(p) == p * PctScale

\* the lower threshold inclusive
ClassifyInclusive(uc) ==
    IF uc > Percent(100) THEN [status |-> "ERROR", color |-> "red"]
    ELSE IF uc >= Percent(80) THEN [status |-> "WARNING", color |-> "orange"]
    ELSE [status |-> "SUCCESS", color |-> "green"]

\* app.py 328-336
Classify(uc) ==
    IF uc > Percent(100) THEN [status |-> "ERROR", color |-> "red"]
    ELSE IF uc > Percent(80) THEN [status |-> "WARNING", color |-> "orange"]
    ELSE [status |-> "SUCCESS", color |-> "green"]

\* f"Case {i}"
CaseLabel(n) == <<"Case", n>>

\* app.py 340-349
DataItem(n, case, m, uc, st) ==
    [label |-> CaseLabel(n), value |-> uc, status |-> st,
     subgroup |-> [Volume |-> case.volume, Density |-> case.density, Mass |-> m,
                   Norm |-> case.norm, UnityCheck |-> [value |-> uc, status |-> st]]]

\* insertion at the front
ListPrepend(list, item) == <<item>> \o list

\* app.py 338, 351: list.append
ListAppend(list, item) == Append(list, item)

\* app.py 354-366: the figure and the result built from the two lists
PlotlyAndDataResult(gd, items) ==
    [fig |-> [x |-> [k \in 1..Len(gd) |-> CaseLabel(k)],
              y |-> [k \in 1..Len(gd) |-> gd[k][1]],
              color |-> [k \in 1..Len(gd) |-> gd[k][2]]],
     data |-> items]

\* the emptiness test left out
HasGraphDataAlways(gd) == TRUE

\* app.py 355: truthiness of graph_data
HasGraphData(gd) == Len(gd) > 0

(***************************************************************************)
(* State machine                                                           *)
(***************************************************************************)
Idle == pc \in {"idle", "returned", "raised"}

\* app.py 28-30: the module is loaded, no view has run
Loaded ==
    /\ view = [m \in Methods |-> NoOutcome]
    /\ pc = "idle"
    /\ calculation_method = "none"
    /\ i = 0
    /\ max_mass = Unset /\ mass = Unset /\ unity_check = Unset
    /\ status = "none" /\ color = "none"
    /\ graph_data = <<>> /\ data_items = <<>>
    /\ outcome = NoOutcome
    /\ calls = <<>>
    /\ norm_max = [NORM_A_MAX |-> NORM_A_MAX, NORM_B_MAX |-> NORM_B_MAX,
                   NORM_C_MAX |-> NORM_C_MAX]
    /\ memo = NoMemo
    /\ got_color = NoOutcome
    /\ legend_entries = <<>>

Init ==
    /\ cases \in Batches
    /\ measurement = 0
    /\ Loaded

\* what a caller that kept a result has seen happen since: an edit of the
\* params, the start of a spreadsheet evaluation
Aged(m, edit, sheet_call) ==
    IF m.kind = "kept"
    THEN [m EXCEPT !.edited = @ \/ edit, !.other = @ \/ sheet_call]
    ELSE m

\* The frame of a finished call is gone; an edit of the params leaves no call
\* in progress and makes both views recompute from the new rows.
Edited(new) ==
    /\ Idle
    /\ cases' = new
    /\ view' = [m \in Methods |-> NoOutcome]
    /\ pc' = "idle"
    /\ calculation_method' = "none"
    /\ i' = 0
    /\ max_mass' = Unset /\ mass' = Unset /\ unity_check' = Unset
    /\ status' = "none" /\ color' = "none"
    /\ graph_data' = <<>> /\ data_items' = <<>>
    /\ outcome' = NoOutcome
    /\ calls' = <<>>
    /\ memo' = Aged(memo, TRUE, FALSE)
    /\ UNCHANGED <<norm_max, colorvars>>

\* app.py 153-158: the defaults of a new row of the Cases array
DefaultCase == [volume |-> 3, density |-> 1000, norm |-> "A"]

\* app.py 149-152: the user adds a row
AddRow ==
    /\ Len(cases) < MaxCases
    /\ Edited(Append(cases, DefaultCase))

\* app.py 149-152: the user removes a row (the bin icon)
RemoveRow ==
    \E k \in 1..Len(cases) :
        Edited([j \in 1..(Len(cases) - 1) |-> IF j < k THEN cases[j] ELSE cases[j + 1]])

\* app.py 153-159: the user changes the fields of a row
EditRowIn(S) ==
    \E k \in 1..Len(cases), c \in S :
        /\ c # cases[k]
        /\ Edited([cases EXCEPT ![k] = c])

EditRow == EditRowIn(Cases)

\* the two lists survive from the previous call (as module-level lists would)
EnterStale(method) ==
    /\ Idle
    /\ calculation_method' = method
    /\ pc' = "for"
    /\ i' = 0
    /\ max_mass' = Unset /\ mass' = Unset /\ unity_check' = Unset
    /\ status' = "none" /\ color' = "none"
    /\ UNCHANGED <<graph_data, data_items>>
    /\ outcome' = NoOutcome
    /\ calls' = <<>>
    /\ memo' = Aged(memo, FALSE, method = "spreadsheet")
    /\ UNCHANGED <<cases, view>>
    /\ UNCHANGED <<norm_max, colorvars>>

\* app.py 306-307: a fresh frame of create_plotly_and_data_result
Enter(method) ==
    /\ Idle
    /\ calculation_method' = method
    /\ pc' = "for"
    /\ i' = 0
    /\ max_mass' = Unset /\ mass' = Unset /\ unity_check' = Unset
    /\ status' = "none" /\ color' = "none"
    /\ graph_data' = <<>> /\ data_items' = <<>>
    /\ outcome' = NoOutcome
    /\ calls' = <<>>
    /\ memo' = Aged(memo, FALSE, method = "spreadsheet")
    /\ UNCHANGED <<cases, view>>
    /\ UNCHANGED <<norm_max, colorvars>>

\* app.py 371-377
calculate_python == Enter("python_function")

\* app.py 382-383
calculate_spreadsheet == Enter("spreadsheet")

\* an exception leaves the frame: nothing is returned
Raise(exc) ==
    /\ pc' = "raised"
    /\ outcome' = Raised(exc)
    /\ view' = [view EXCEPT ![calculation_method] = Raised(exc)]

\* app.py 308: next case of the enumeration, or the end of the loop
ForNext ==
    /\ pc = "for"
    /\ IF i < Len(cases)
          THEN i' = i + 1 /\ pc' = "norm"
          ELSE i' = i /\ pc' = "plot"
    /\ UNCHANGED <<cases, view, calculation_method, locals, graph_data, data_items, outcome, calls>>
    /\ UNCHANGED outside

\* the mass is computed first, the unknown norm is noticed afterwards
NormStepDeferred ==
    /\ pc = "norm"
    /\ LET r == LookupMaxMass(cases[i].norm)
       IN  max_mass' = IF r.ok THEN r.value ELSE max_mass
    /\ pc' = "mass"
    /\ UNCHANGED <<cases, view, outcome, calculation_method, i, mass, unity_check,
                   status, color, graph_data, data_items, calls>>
    /\ UNCHANGED outside

\* app.py 309-316
NormStep ==
    /\ pc = "norm"
    /\ LET r == LookupMaxMass(cases[i].norm)
       IN  IF r.ok
              THEN /\ max_mass' = r.value
                   /\ pc' = "mass"
                   /\ UNCHANGED <<view, outcome>>
              ELSE /\ Raise(r.exc)
                   /\ UNCHANGED max_mass
    /\ UNCHANGED <<cases, calculation_method, i, mass, unity_check, status, color,
                   graph_data, data_items, calls>>
    /\ UNCHANGED outside

\* the sheet is evaluated as well, to cross-check the product
MassPythonCrossChecked ==
    /\ pc = "mass"
    /\ calculation_method = "python_function"
    /\ mass' = PythonMass(cases[i].volume, cases[i].density)
    /\ calls' = Append(calls, [volume |-> cases[i].volume,
                               density |-> cases[i].density, sheet |-> "ok"])
    /\ pc' = "check"
    /\ UNCHANGED <<cases, view, calculation_method, i, max_mass, unity_check, status, color,
                   graph_data, data_items, outcome>>
    /\ UNCHANGED outside

\* app.py 321-323
MassPython ==
    /\ pc = "mass"
    /\ calculation_method = "python_function"
    /\ mass' = PythonMass(cases[i].volume, cases[i].density)
    /\ pc' = "check"
    /\ UNCHANGED <<cases, view, calculation_method, i, max_mass, unity_check, status, color,
                   graph_data, data_items, outcome, calls>>
    /\ UNCHANGED outside

\* a failed call is repeated instead of raising
MassSpreadsheetRetry ==
    /\ pc = "mass"
    /\ calculation_method = "spreadsheet"
    /\ \E sheet \in SheetOutcomes :
          LET r == calculate_mass_from_spreadsheet(cases[i].volume, cases[i].density, sheet)
          IN  /\ calls' = Append(calls, [volume |-> cases[i].volume,
                                         density |-> cases[i].density, sheet |-> sheet])
              /\ mass' = IF r.ok THEN r.value ELSE mass
              /\ pc' = IF r.ok THEN "check" ELSE "mass"
    /\ UNCHANGED <<cases, view, outcome, calculation_method, i, max_mass, unity_check,
                   status, color, graph_data, data_items>>
    /\ UNCHANGED outside

\* app.py 318-320: one synchronous call of the collaborator
MassSpreadsheet ==
    /\ pc = "mass"
    /\ calculation_method = "spreadsheet"
    /\ \E sheet \in SheetOutcomes :
          LET r == calculate_mass_from_spreadsheet(cases[i].volume, cases[i].density, sheet)
          IN  /\ calls' = Append(calls, [volume |-> cases[i].volume,
                                         density |-> cases[i].density, sheet |-> sheet])
              /\ IF r.ok
                    THEN /\ mass' = r.value
                         /\ pc' = "check"
                         /\ UNCHANGED <<view, outcome>>
                    ELSE /\ Raise(r.exc)
                         /\ UNCHANGED mass
    /\ UNCHANGED <<cases, calculation_method, i, max_mass, unity_check, status, color,
                   graph_data, data_items>>
    /\ UNCHANGED outside

\* app.py 327-351
CheckStep ==
    /\ pc = "check"
    /\ LET uc == UnityCheck(mass, max_mass)
           c  == Classify(uc)
       IN  /\ unity_check' = uc
           /\ status' = c.status
           /\ color' = c.color
           /\ graph_data' = ListAppend(graph_data, <<uc, c.color>>)
           /\ data_items' = ListAppend(data_items, DataItem(i, cases[i], mass, uc, c.status))
    /\ pc' = "for"
    /\ UNCHANGED <<cases, view, calculation_method, i, max_mass, mass, outcome, calls>>
    /\ UNCHANGED outside

\* app.py 354-366
PlotStep ==
    /\ pc = "plot"
    /\ IF HasGraphData(graph_data)
          THEN LET r == PlotlyAndDataResult(graph_data, data_items)
               IN  /\ pc' = "returned"
                   /\ outcome' = Returned(r)
                   /\ view' = [view EXCEPT ![calculation_method] = Returned(r)]
          ELSE Raise(UserException)
    /\ UNCHANGED <<cases, calculation_method, i, locals, graph_data, data_items, calls>>
    /\ UNCHANGED outside

Next ==
    \/ AddRow
    \/ RemoveRow
    \/ EditRow
    \/ calculate_python
    \/ calculate_spreadsheet
    \/ ForNext
    \/ NormStep
    \/ MassPython
    \/ MassSpreadsheet
    \/ CheckStep
    \/ PlotStep

Spec == Init /\ [][Next]_vars

(***************************************************************************)
(* Repeated evaluation: a caller keeps the outcome of one Python           *)
(* evaluation and compares later evaluations of the same rows with it.     *)
(***************************************************************************)
\* the default row, a row of unknown norm and a row at exactly 100 percent
ReplayCases ==
    { DefaultCase, UnknownNormCase, [volume |-> 5, density |-> 1500, norm |-> "B"] }

ReplayBatches == SeqsUpTo(ReplayCases, MaxCases)

InitReplay ==
    /\ cases \in ReplayBatches
    /\ measurement = 0
    /\ Loaded

EditRowReplay == EditRowIn(ReplayCases)

\* app.py 371-377: the caller of calculate_python keeps what the call returned
\* or raised, together with the rows it was called for
Remember ==
    /\ pc \in {"returned", "raised"}
    /\ calculation_method = "python_function"
    /\ memo = NoMemo
    /\ memo' = [kind |-> "kept", cases |-> cases, outcome |-> outcome,
                edited |-> FALSE, other |-> FALSE]
    /\ UNCHANGED <<evalvars, norm_max, colorvars>>

NextReplay ==
    \/ AddRow
    \/ RemoveRow
    \/ EditRowReplay
    \/ calculate_python
    \/ calculate_spreadsheet
    \/ ForNext
    \/ NormStep
    \/ MassPython
    \/ MassSpreadsheet
    \/ CheckStep
    \/ PlotStep
    \/ Remember

SpecReplay == InitReplay /\ [][NextReplay]_vars

(***************************************************************************)
(* The colors of the map view: get_color applied to the measurement and to *)
(* the values of the legend.                                               *)
(***************************************************************************)
\* the arguments tried: the range of the Measurement field and values on
\* both sides of it
ValueSlack == 5

\* app.py 119: min and max of the Measurement field
MeasurementMin == 0

MeasurementMax == 100

Values == (MeasurementMin - ValueSlack)..(MeasurementMax + ValueSlack)

ValueError == [type |-> "ValueError"]

\* viktor.Color(r, g, b)
Color(r, g, b) == [r |-> r, g |-> g, b |-> b]

\* int(num / den): the quotient truncated towards zero
IntOf(num, den) == IF num >= 0 THEN num \div den ELSE -((-num) \div den)

\* the upper end of the range excluded
get_color_exclusive(value) ==
    IF ~(0 <= value /\ value < 100) THEN Fail(ValueError)
    ELSE Ok(Color(255 - IntOf(value * 255, 100), 20, IntOf(value * 255, 100)))

\* app.py 34-42
get_color(value) ==
    IF ~(0 <= value /\ value <= 100) THEN Fail(ValueError)
    ELSE Ok(Color(255 - IntOf(value * 255, 100), 20, IntOf(value * 255, 100)))

\* app.py 254: the values of the legend
LegendValues == <<0, 10, 20, 30, 40, 50, 60, 70, 80, 90, 100>>

InitColor ==
    /\ cases = <<DefaultCase>>
    /\ measurement \in Values
    /\ Loaded

\* app.py 241: color = get_color(measurement)
GetColorCall ==
    /\ got_color = NoOutcome
    /\ LET r == get_color(measurement)
       IN  got_color' = IF r.ok THEN Returned(r.value) ELSE Raised(r.exc)
    /\ UNCHANGED <<evalvars, norm_max, memo, measurement, legend_entries>>

\* app.py 254: one call of get_color per legend value, in order
BuildLegend ==
    /\ legend_entries = <<>>
    /\ legend_entries' = [k \in 1..Len(LegendValues) |-> get_color(LegendValues[k])]
    /\ UNCHANGED <<evalvars, norm_max, memo, measurement, got_color>>

NextColor ==
    \/ GetColorCall
    \/ BuildLegend

SpecColor == InitColor /\ [][NextColor]_vars

(***************************************************************************)
(* Properties                                                              *)
(***************************************************************************)
\* the data items a view returned for the current params
ViewItems(m) == IF view[m].kind = "returned" THEN view[m].value.data ELSE <<>>

\* every data item built so far by the running call or returned by a view
AllItems ==
    { data_items[k] : k \in 1..Len(data_items) }
        \cup UNION { { ViewItems(m)[k] : k \in 1..Len(ViewItems(m)) } : m \in Methods }

InBand(item) ==
    /\ (item.value > 100 * PctScale) => item.status = "ERROR"
    /\ (item.value > 80 * PctScale /\ item.value <= 100 * PctScale) => item.status = "WARNING"
    /\ (item.value <= 80 * PctScale) => item.status = "SUCCESS"
    /\ item.subgroup.UnityCheck = [value |-> item.value, status |-> item.status]

\* C1: the status of every evaluated case follows from its utilization alone:
\* above 100 percent ERROR, above 80 and up to 100 WARNING, up to 80 SUCCESS
\* (exactly 80 is SUCCESS, exactly 100 is WARNING).
C1_StatusBands == \A item \in AllItems : InBand(item)

\* a batch with one case at exactly 80 percent and one at exactly 100 percent
C1_Witness ==
    /\ pc = "returned"
    /\ \E a, b \in 1..Len(data_items) :
          /\ data_items[a].value = 80 * PctScale /\ data_items[a].status = "SUCCESS"
          /\ data_items[b].value = 100 * PctScale /\ data_items[b].status = "WARNING"

\* C2: a case of norm A, B or C is evaluated against exactly 500, 750 or 1000,
\* under both calculation methods and at every position of the batch.
C2_NormLimits ==
    pc \in {"mass", "check"} =>
        /\ cases[i].norm = "A" => max_mass = 500
        /\ cases[i].norm = "B" => max_mass = 750
        /\ cases[i].norm = "C" => max_mass = 1000

\* the second case of a spreadsheet batch has norm B and its limit is in use
C2_Witness ==
    /\ pc = "check" /\ i = 2 /\ calculation_method = "spreadsheet"
    /\ cases[1].norm = "C" /\ cases[2].norm = "B" /\ max_mass = 750

\* C3: under the Python method the mass reported for a case is the product of
\* its volume and its density (0.3 m3 at 1000 kg/m3 gives 300 kg).
C3_LocalMass ==
    /\ calculation_method = "python_function" =>
          \A k \in 1..Len(data_items) :
              /\ data_items[k].subgroup.Mass = cases[k].volume * cases[k].density
              /\ cases[k].volume = 3 /\ cases[k].density = 1000
                    => data_items[k].subgroup.Mass = 300 * VolScale
    /\ \A k \in 1..Len(ViewItems("python_function")) :
          ViewItems("python_function")[k].subgroup.Mass = cases[k].volume * cases[k].density

\* the Python view returned 300 kg for the default case and 0 kg for a case of
\* density 0
C3_Witness ==
    /\ pc = "returned" /\ calculation_method = "python_function"
    /\ Len(cases) = 2
    /\ cases[1] = [volume |-> 10, density |-> 0, norm |-> "B"]
    /\ cases[2] = [volume |-> 3, density |-> 1000, norm |-> "A"]
    /\ ViewItems("python_function")[1].subgroup.Mass = 0
    /\ ViewItems("python_function")[2].subgroup.Mass = 300 * VolScale

\* the limit of a recognized norm
LimitOf(norm) == CASE norm = "A" -> 500 [] norm = "B" -> 750 [] norm = "C" -> 1000

\* C4: for a case of a recognized norm the divisor is one of the three positive
\* limits and the utilization is mass / max_mass * 100 (0.5 m3 at 1500 kg/m3
\* under norm B: 750 kg of 750 kg, 100 percent, WARNING).
C4_Utilization ==
    /\ pc = "check" => max_mass \in {500, 750, 1000} /\ max_mass > 0
    /\ \A item \in AllItems :
          /\ item.value * LimitOf(item.subgroup.Norm) * VolScale
                = item.subgroup.Mass * 100 * PctScale
          /\ item.subgroup.Volume = 5 /\ item.subgroup.Density = 1500
                /\ item.subgroup.Norm = "B"
                => /\ item.subgroup.Mass = 750 * VolScale
                   /\ item.value = 100 * PctScale
                   /\ item.status = "WARNING"

\* the case 0.5 m3, 1500 kg/m3, norm B has been evaluated to 100 percent
C4_Witness ==
    \E k \in 1..Len(data_items) :
        /\ cases[k] = [volume |-> 5, density |-> 1500, norm |-> "B"]
        /\ data_items[k].subgroup.Mass = 750 * VolScale
        /\ data_items[k].value = 100 * PctScale
        /\ data_items[k].status = "WARNING"

\* result k of a returned value is the evaluation of case c under label k
IsResultOf(r, k, c) ==
    LET item == r.data[k]
    IN  /\ item.label = <<"Case", k>>
        /\ item.subgroup.Volume = c.volume
        /\ item.subgroup.Density = c.density
        /\ item.subgroup.Norm = c.norm
        /\ item.subgroup.Mass = c.volume * c.density
        /\ item.value * LimitOf(c.norm) * VolScale = item.subgroup.Mass * 100 * PctScale
        /\ InBand(item)
        /\ r.fig.x[k] = <<"Case", k>>
        /\ r.fig.y[k] = item.value
        /\ r.fig.color[k] = (CASE item.status = "ERROR" -> "red"
                               [] item.status = "WARNING" -> "orange"
                               [] item.status = "SUCCESS" -> "green")

InInputOrder(r) ==
    /\ Len(cases) >= 1
    /\ Len(r.data) = Len(cases)
    /\ Len(r.fig.x) = Len(cases) /\ Len(r.fig.y) = Len(cases) /\ Len(r.fig.color) = Len(cases)
    /\ \A k \in 1..Len(cases) : IsResultOf(r, k, cases[k])

\* C5: a call that returns, returns one result per case, in input order: data
\* item k and bar k of the graph are the evaluation of case k.
C5_OrderPreserved ==
    /\ pc = "returned" => InInputOrder(outcome.value)
    /\ \A m \in Methods : view[m].kind = "returned" => InInputOrder(view[m].value)

\* a returned batch of two cases with different utilizations
C5_Witness ==
    /\ pc = "returned" /\ Len(cases) = 2
    /\ cases[1].norm # cases[2].norm
    /\ outcome.value.fig.y[1] > outcome.value.fig.y[2]
    /\ outcome.value.data[2].status # outcome.value.data[1].status

\* C6: with no case the call raises the user error "Add at least 1 case." under
\* both methods, and no call returns an empty result.
C6_EmptyBatch ==
    /\ cases = <<>> /\ pc \in {"returned", "raised"}
          => outcome = Raised([type |-> "UserException", message |-> "Add at least 1 case."])
    /\ \A m \in Methods :
          /\ cases = <<>> /\ view[m].kind # "none"
                => view[m] = Raised([type |-> "UserException", message |-> "Add at least 1 case."])
          /\ view[m].kind = "returned" => Len(view[m].value.data) >= 1
    /\ pc = "returned" => Len(outcome.value.data) >= 1 /\ Len(outcome.value.fig.y) >= 1

\* both views have raised the user error for the empty array
C6_Witness ==
    /\ cases = <<>>
    /\ \A m \in Methods : view[m].kind = "raised" /\ view[m].exc.type = "UserException"

Recognized(norm) == norm \in {"A", "B", "C"}

\* C7: the evaluation of a case of an unrecognized norm raises
\* NotImplementedError under both methods; the case gets no limit, no mass, no
\* utilization and no status: it never reaches the mass computation and no data
\* item or bar exists for it.
C7_UnknownNorm ==
    /\ pc \in {"mass", "check"} => Recognized(cases[i].norm)
    /\ \A item \in AllItems : Recognized(item.subgroup.Norm)
    /\ pc \in {"raised", "returned"} /\ i >= 1 /\ ~Recognized(cases[i].norm)
          => /\ outcome = Raised([type |-> "NotImplementedError"])
             /\ view[calculation_method] = outcome
             /\ Len(data_items) = i - 1 /\ Len(graph_data) = i - 1
             /\ Len(calls) <= i - 1

\* the spreadsheet view raised on the second case, whose norm is D
C7_Witness ==
    /\ pc = "raised" /\ calculation_method = "spreadsheet"
    /\ i = 2 /\ cases[2].norm = "D" /\ Recognized(cases[1].norm)
    /\ outcome.exc.type = "NotImplementedError"
    /\ Len(data_items) = 1

UnknownAt == { k \in 1..Len(cases) : ~Recognized(cases[k].norm) }

FirstUnknown == CHOOSE k \in UnknownAt : \A j \in UnknownAt : k <= j

\* no result of the current params exists anywhere, and no case after k has
\* been looked at
NothingReturnedUpTo(k) ==
    /\ pc # "returned" /\ outcome.kind # "returned"
    /\ \A m \in Methods : view[m].kind # "returned"
    /\ i <= k /\ Len(data_items) < k /\ Len(graph_data) < k /\ Len(calls) < k

\* C8 as stated: a batch with a case of unrecognized norm fails with that
\* error whenever it fails.
C8_FailsWithNormError ==
    UnknownAt # {} =>
        /\ NothingReturnedUpTo(FirstUnknown)
        /\ pc = "raised" => outcome = Raised([type |-> "NotImplementedError"])

\* C8, amended: a batch whose first case of unrecognized norm is k never
\* returns a result, not even for the cases before k, and looks at no case
\* after k; it fails with NotImplementedError at case k, unless the spreadsheet
\* collaborator failed for a case before k, and then with that error.
C8_FailFast ==
    UnknownAt # {} =>
        /\ NothingReturnedUpTo(FirstUnknown)
        /\ pc = "raised" =>
              \/ /\ outcome = Raised([type |-> "NotImplementedError"])
                 /\ i = FirstUnknown
              \/ /\ outcome = Raised([type |-> "SpreadsheetError"])
                 /\ calculation_method = "spreadsheet"
                 /\ i < FirstUnknown
        /\ \A m \in Methods :
              view[m].kind = "raised" /\ m = "python_function"
                  => view[m] = Raised([type |-> "NotImplementedError"])

\* the Python view evaluated a valid first case and raised on the second
C8_Witness ==
    /\ pc = "raised" /\ calculation_method = "python_function"
    /\ Len(cases) = 2 /\ UnknownAt = {2}
    /\ Len(data_items) = 1 /\ i = 2
    /\ view["python_function"] = Raised([type |-> "NotImplementedError"])

FailedCalls == { k \in 1..Len(calls) : calls[k].sheet = "error" }

\* C9: when the collaborator fails for a case, the spreadsheet call ends with
\* the collaborator's error, which is neither NotImplementedError nor the
\* user error; the failed call is the last one and the case gets no mass and
\* no result.
C9_ServiceErrorPropagates ==
    FailedCalls # {} =>
        /\ pc = "raised"
        /\ outcome = Raised([type |-> "SpreadsheetError"])
        /\ outcome.exc.type \notin {"NotImplementedError", "UserException"}
        /\ view["spreadsheet"] = outcome
        /\ FailedCalls = {Len(calls)} /\ Len(calls) = i
        /\ Len(data_items) = i - 1 /\ Len(graph_data) = i - 1

\* the collaborator failed on the second case of a spreadsheet batch
C9_Witness ==
    /\ pc = "raised" /\ calculation_method = "spreadsheet"
    /\ Len(calls) = 2 /\ calls[1].sheet = "ok" /\ calls[2].sheet = "error"
    /\ Len(data_items) = 1
    /\ outcome.exc.type = "SpreadsheetError"

\* C10: for a batch of valid cases, the Python view and the spreadsheet view
\* whose collaborator did not fail return the same result: the same mass,
\* utilization and status for each case in the same order.
C10_MethodsAgree ==
    /\ cases # <<>> /\ UnknownAt = {}
    /\ view["python_function"].kind # "none"
    /\ view["spreadsheet"].kind # "none"
    /\ view["spreadsheet"] # Raised([type |-> "SpreadsheetError"])
    => /\ view["python_function"].kind = "returned"
       /\ view["spreadsheet"].kind = "returned"
       /\ view["spreadsheet"].value = view["python_function"].value

\* both views have returned for a batch of two valid cases
C10_Witness ==
    /\ Len(cases) = 2 /\ UnknownAt = {}
    /\ view["python_function"].kind = "returned"
    /\ view["spreadsheet"].kind = "returned"
    /\ view["spreadsheet"].value.data[2].subgroup.Mass = 750 * VolScale

\* C11: under the Python method the outcome of an evaluation depends on the
\* rows alone: evaluating the rows of a kept outcome again gives the same
\* outcome (the same result, or the same error), whatever edits and whatever
\* other evaluations, successful or failed, happened in between.
C11_SameInputsSameResult ==
    /\ memo.kind = "kept"
    /\ pc \in {"returned", "raised"}
    /\ calculation_method = "python_function"
    /\ cases = memo.cases
    => /\ outcome = memo.outcome
       /\ view["python_function"] = memo.outcome

\* a result was kept, the rows were edited away and back, a spreadsheet
\* evaluation of the same rows failed, and the Python view returned again
C11_Witness ==
    /\ memo.kind = "kept" /\ memo.edited /\ memo.other
    /\ memo.outcome.kind = "returned"
    /\ Len(cases) = 2 /\ cases = memo.cases
    /\ pc = "returned" /\ calculation_method = "python_function"
    /\ view["spreadsheet"] = Raised([type |-> "SpreadsheetError"])
    /\ outcome = memo.outcome

\* a step of an evaluation under the Python method: its start, or a step inside it
PythonStep == calculation_method' = "python_function" /\ evalvars' # evalvars

\* C12: an evaluation under the Python method has no side effects: from its
\* start to its return or its exception it makes no call of the collaborator
\* and leaves the rows and the three norm limits as they were.
C12_LocalNoSideEffects ==
    /\ [](norm_max = [NORM_A_MAX |-> 500, NORM_B_MAX |-> 750, NORM_C_MAX |-> 1000])
    /\ [][PythonStep => calls' = <<>> /\ cases' = cases /\ norm_max' = norm_max]_vars

\* a Python evaluation of two rows returned without a call, after the
\* spreadsheet view had returned for the same rows
C12_Witness ==
    /\ pc = "returned" /\ calculation_method = "python_function"
    /\ Len(cases) = 2 /\ calls = <<>>
    /\ view["spreadsheet"].kind = "returned"
    /\ norm_max.NORM_B_MAX = 750

\* C13: under the spreadsheet method the collaborator is called once per case,
\* in batch order, call k + 1 only after case k is complete; a batch that
\* returns has made one call per case, and a failed call is the last call of
\* the evaluation (no second call for that case, none for a later case).
C13_OneCallPerCase ==
    calculation_method = "spreadsheet" =>
        /\ Len(calls) <= i /\ i <= Len(cases)
        /\ Len(calls) <= Len(data_items) + 1
        /\ \A k \in 1..Len(calls) :
              /\ calls[k].volume = cases[k].volume
              /\ calls[k].density = cases[k].density
              /\ calls[k].sheet = "error" => k = Len(calls) /\ pc = "raised"
        /\ pc \in {"for", "check", "plot", "returned"} => Len(calls) = i
        /\ pc = "returned" => Len(calls) = Len(cases) /\ Len(cases) >= 1

\* the spreadsheet view returned for two different rows after two calls, in
\* the order of the rows
C13_Witness ==
    /\ pc = "returned" /\ calculation_method = "spreadsheet"
    /\ Len(cases) = 2 /\ Len(calls) = 2
    /\ cases[1].volume # cases[2].volume
    /\ calls[1].volume = cases[1].volume /\ calls[2].volume = cases[2].volume

\* C14: the norm of a case is looked up before its mass is computed: the
\* collaborator is only ever called for a case of a recognized norm, and a
\* batch whose first case has an unrecognized norm fails without any call.
C14_NormBeforeMass ==
    /\ \A k \in 1..Len(calls) : Recognized(cases[k].norm)
    /\ Len(cases) >= 1 /\ ~Recognized(cases[1].norm) => calls = <<>>
    /\ pc = "mass" => /\ Recognized(cases[i].norm)
                      /\ max_mass = LimitOf(cases[i].norm)
                      /\ Len(calls) < i
    /\ pc = "raised" /\ outcome = Raised([type |-> "NotImplementedError"])
          => Len(calls) = IF calculation_method = "spreadsheet" THEN i - 1 ELSE 0

\* the spreadsheet view raised on a first row of norm D, before any call
C14_Witness ==
    /\ pc = "raised" /\ calculation_method = "spreadsheet"
    /\ Len(cases) = 2 /\ cases[1].norm = "D" /\ Recognized(cases[2].norm)
    /\ i = 1 /\ calls = <<>>
    /\ outcome = Raised([type |-> "NotImplementedError"])

\* the color the claim gives for an integer value of 0..100
IsColorOf(c, value) ==
    /\ c.b * 100 <= value * 255 /\ value * 255 < (c.b + 1) * 100
    /\ c.r = 255 - c.b
    /\ c.g = 20
    /\ c.r \in 0..255 /\ c.g \in 0..255 /\ c.b \in 0..255
    /\ c.r + c.b = 255

\* C15: get_color raises ValueError exactly for a value outside 0..100; for an
\* integer value of 0..100 it returns red = 255 - b, green = 20, blue = b with
\* b = floor(value * 255 / 100); every value of the legend is accepted.
C15_GetColor ==
    /\ got_color.kind # "none" =>
          /\ (measurement < 0 \/ measurement > 100) <=> got_color.kind = "raised"
          /\ got_color.kind = "raised" => got_color.exc = [type |-> "ValueError"]
          /\ got_color.kind = "returned" => IsColorOf(got_color.value, measurement)
    /\ legend_entries # <<>> =>
          /\ Len(legend_entries) = 11
          /\ \A k \in 1..11 :
                /\ legend_entries[k].ok
                /\ IsColorOf(legend_entries[k].value, 10 * (k - 1))

\* get_color(100) returned (0, 20, 255) and the legend is built, with
\* (128, 20, 127) for the value 50
C15_Witness ==
    /\ measurement = 100
    /\ got_color = Returned([r |-> 0, g |-> 20, b |-> 255])
    /\ Len(legend_entries) = 11
    /\ legend_entries[6] = [ok |-> TRUE, value |-> [r |-> 128, g |-> 20, b |-> 127]]

====
